---------------------------- MODULE Spec2Model ----------------------------
(***************************************************************************)
(* State-machine model of src/main.py: one synchronisation run of the      *)
(* Zaim ledger into the spreadsheet (Config.validate, BrowserManager,      *)
(* ZaimScraper.login / fetch_data_loop, DataProcessor.process,             *)
(* SheetUploader.upload) and its re-execution against the same ledger.     *)
(*                                                                         *)
(* Representation.                                                         *)
(*   - a text is a sequence of one-character strings; the yen sign is the  *)
(*     token "yen";                                                        *)
(*   - a date text of a DOM row is [mon, day, paren]: "<mon>月<day>日"      *)
(*     followed by the full-width parenthetical `paren` ("" when none);    *)
(*   - a Timestamp is the number yyyymmdd, NaT is 0; a "%Y-%m-%d" string   *)
(*     is <<y, m, d>>, the empty string / NaN cell is <<>>;                *)
(*   - zaim_id is a number, 0 standing for the empty string;               *)
(*   - a DataFrame is a sequence of records (its rows, in index order).    *)
(* Only the columns zaim_id, 日付, 金額, 入金先 and the derived columns      *)
(* date_obj, 入金, 出金 are carried; the other columns are copied through   *)
(* by the code untouched.                                                  *)
(***************************************************************************)
EXTENDS Integers, Sequences, FiniteSets, TLC

\* ------------------------------------------------------------ bounds
MaxId == 2          \* ledger ids are 1..MaxId
MaxStoreRows == 2   \* rows of the spreadsheet before the first run
MaxRuns == 2        \* executions of main against the same ledger

\* --------------------------------------------------- program constants
Months == 3         \* main: fetch_data_loop(months=3)

\* ------------------------------------------------------------ helpers
NaT == 0

Range(s) == {s[k] : k \in 1..Len(s)}

RECURSIVE Flatten(_)
Flatten(ss) == IF ss = <<>> THEN <<>> ELSE Head(ss) \o Flatten(Tail(ss))

Remove(s, k) == SubSeq(s, 1, k - 1) \o SubSeq(s, k + 1, Len(s))

RECURSIVE Perms(_)
Perms(s) ==
  IF s = <<>> THEN {<<>>}
  ELSE UNION {{<<s[k]>> \o p : p \in Perms(Remove(s, k))} : k \in 1..Len(s)}

\* ------------------------------------------------------ calendar
IsLeap(y) == (y % 4 = 0 /\ y % 100 # 0) \/ y % 400 = 0

DaysInMonth(y, m) ==
  IF m = 2 THEN (IF IsLeap(y) THEN 29 ELSE 28)
  ELSE IF m \in {4, 6, 9, 11} THEN 30 ELSE 31

DateNum(y, m, d) == y * 10000 + m * 100 + d

\* today - pd.DateOffset(months=k), as [year, month]
MonthsBefore(t, k) ==
  LET idx == t.year * 12 + (t.month - 1) - k
  IN  [year |-> idx \div 12, month |-> (idx % 12) + 1]

\* ------------------------------------------------- DataProcessor.process
\* re.sub(r"（[^）]+）", "", text)
StripParen(text) == [text EXCEPT !.paren = ""]

\* pd.to_datetime(f"{year}年{text}", format="%Y年%m月%d日", errors="coerce")
parse_date(text, year) ==
  LET t == StripParen(text)
  IN  IF t.paren = "" /\ t.mon \in 1..12 /\ t.day \in 1..DaysInMonth(year, t.mon)
      THEN DateNum(year, t.mon, t.day)
      ELSE NaT

\* Series.dt.strftime("%Y-%m-%d"), NaT giving NaN, then fillna("")
Strftime(ts) ==
  IF ts = NaT THEN <<>> ELSE <<ts \div 10000, (ts \div 100) % 100, ts % 100>>

\* pd.to_datetime(column, errors="coerce") on a "%Y-%m-%d" cell
ToDatetime(cell) ==
  IF Len(cell) = 3 /\ cell[2] \in 1..12 /\ cell[3] \in 1..DaysInMonth(cell[1], cell[2])
  THEN DateNum(cell[1], cell[2], cell[3])
  ELSE NaT

Digits == <<"0", "1", "2", "3", "4", "5", "6", "7", "8", "9">>

DigitVal(c) == (CHOOSE k \in 1..10 : Digits[k] = c) - 1

RECURSIVE DigitsVal(_)
DigitsVal(s) ==
  IF s = <<>> THEN 0
  ELSE DigitsVal(SubSeq(s, 1, Len(s) - 1)) * 10 + DigitVal(s[Len(s)])

\* pd.to_numeric(text, errors="coerce"): an optionally signed run of digits
\* parses to its value, anything else is NaN
ToNumeric(s) ==
  LET signed == Len(s) > 0 /\ s[1] \in {"-", "+"}
      body   == IF signed THEN Tail(s) ELSE s
      ok     == Len(body) > 0 /\ \A k \in 1..Len(body) : body[k] \in Range(Digits)
  IN  IF ~ok THEN [nan |-> TRUE, val |-> 0]
      ELSE [nan |-> FALSE,
            val |-> IF signed /\ s[1] = "-" THEN 0 - DigitsVal(body) ELSE DigitsVal(body)]

\* .astype(str).str.replace("¥", "").str.replace(",", ""), to_numeric, fillna(0)
ParsePrice(text) ==
  LET stripped == SelectSeq(text, LAMBDA c : c # "yen" /\ c # ",")
      n        == ToNumeric(stripped)
  IN  IF n.nan THEN 0 ELSE n.val

\* one row of df_clean from one row of raw_df
ProcessRow(r) ==
  LET amount      == ParsePrice(r.price_text)
      mask_income == r.to_text # ""
  IN  [zaim_id  |-> r.zaim_id,
       date_obj |-> Strftime(parse_date(r.date_text, r.ScrapedYear)),
       amount   |-> amount,
       nyukin   |-> IF mask_income THEN amount ELSE 0,
       shukkin  |-> IF mask_income THEN 0 ELSE amount,
       to_text  |-> r.to_text]

process(df) == [k \in 1..Len(df) |-> ProcessRow(df[k])]

\* ------------------------------------------ ZaimScraper._parse_current_view
\* rows without a resolvable id are skipped; the first row of an id wins
RECURSIVE ParseView(_, _)
ParseView(rows, data_store) ==
  IF rows = <<>> THEN data_store
  ELSE LET row == Head(rows)
           seen == {data_store[k].zaim_id : k \in 1..Len(data_store)}
       IN  IF row.zaim_id = 0 \/ row.zaim_id \in seen
           THEN ParseView(Tail(rows), data_store)
           ELSE ParseView(Tail(rows), Append(data_store, row))

\* _scrape_one_shot: None (here <<>>) on a navigation error or wait timeout,
\* the parsed rows otherwise; a failure of the whole parse leaves no rows
scrape_one_shot(page) ==
  IF page.outcome = "ok" THEN ParseView(page.rows, <<>>) ELSE <<>>

\* df["ScrapedYear"] = target_date.year
TagYear(df, year) ==
  [k \in 1..Len(df) |->
     [zaim_id |-> df[k].zaim_id, date_text |-> df[k].date_text,
      price_text |-> df[k].price_text, to_text |-> df[k].to_text,
      ScrapedYear |-> year]]

\* --------------------------------------------------- SheetUploader.upload
\* df_combined[df_combined["zaim_id"] != ""]
NonEmptyIds(df) == SelectSeq(df, LAMBDA r : r.zaim_id # 0)

\* keep="first" in place of keep="last"
RECURSIVE DropDuplicatesKeepFirst(_)
DropDuplicatesKeepFirst(df) ==
  IF df = <<>> THEN <<>>
  ELSE LET init == DropDuplicatesKeepFirst(SubSeq(df, 1, Len(df) - 1))
           last == df[Len(df)]
       IN  IF \E k \in 1..Len(init) : init[k].zaim_id = last.zaim_id
           THEN init ELSE Append(init, last)

\* drop_duplicates(subset=["zaim_id"], keep="last")
RECURSIVE DropDuplicatesKeepLast(_)
DropDuplicatesKeepLast(df) ==
  IF df = <<>> THEN <<>>
  ELSE IF \E k \in 2..Len(df) : df[k].zaim_id = df[1].zaim_id
       THEN DropDuplicatesKeepLast(Tail(df))
       ELSE <<df[1]>> \o DropDuplicatesKeepLast(Tail(df))

\* the existing rows left out of the concatenation
MergeFramesNewOnly(existing, df_new) ==
  IF existing.hdr THEN DropDuplicatesKeepLast(NonEmptyIds(df_new)) ELSE df_new

\* lines 334-358: the table before sorting
MergeFrames(existing, df_new) ==
  IF existing.hdr
  THEN DropDuplicatesKeepLast(NonEmptyIds(existing.rows \o df_new))
  ELSE df_new

Key(r) == ToDatetime(r.date_obj)

\* the orders sort_values(ascending=False) with the default kind
\* ("quicksort", not stable) may give the rows of valid date: descending,
\* rows of equal date in any order
RECURSIVE DescendingOrders(_)
DescendingOrders(df) ==
  IF df = <<>> THEN {<<>>}
  ELSE LET top  == CHOOSE d \in {Key(df[k]) : k \in 1..Len(df)} :
                     \A k \in 1..Len(df) : Key(df[k]) <= d
           ties == SelectSeq(df, LAMBDA r : Key(r) = top)
           rest == SelectSeq(df, LAMBDA r : Key(r) # top)
       IN  {g \o t : g \in Perms(ties), t \in DescendingOrders(rest)}

\* lines 361-364: NaT rows are appended after the sorted ones in their
\* original order (na_position="last"); date_obj is re-formatted
SortOutcomes(df) ==
  LET dated == SelectSeq(df, LAMBDA r : Key(r) # NaT)
      nat   == SelectSeq(df, LAMBDA r : Key(r) = NaT)
      fmt(s) == [k \in 1..Len(s) |-> [s[k] EXCEPT !.date_obj = Strftime(Key(s[k]))]]
  IN  {fmt(o \o nat) : o \in DescendingOrders(dated)}

\* ------------------------------------------------------------- Config
Values == {"", "set"}

Configs == [ZAIM_EMAIL : Values, ZAIM_PASS : Values,
            SPREADSHEET_KEY : Values, JSON_KEYFILE : Values]

ConfigOK == [ZAIM_EMAIL |-> "set", ZAIM_PASS |-> "set",
             SPREADSHEET_KEY |-> "set", JSON_KEYFILE |-> "set"]

\* the store identifier left out of the check
validateNoKey(c) == c.ZAIM_EMAIL # "" /\ c.ZAIM_PASS # ""

\* Config.validate: all([ZAIM_EMAIL, ZAIM_PASS, SPREADSHEET_KEY])
validate(c) == c.ZAIM_EMAIL # "" /\ c.ZAIM_PASS # "" /\ c.SPREADSHEET_KEY # ""

\* ServiceAccountCredentials.from_json_keyfile_name opens the file named
\* by JSON_KEYFILE; an empty path cannot be opened
KeyfileReadable(c) == c.JSON_KEYFILE # ""

\* ---------------------------------------------------------------- URLs
\* a location is [host, path]; `marker in url` looks at both parts
UrlAuth  == [host |-> "auth.zaim.net", path |-> ""]
UrlKufu  == [host |-> "id.kufu.jp", path |-> "signin"]
UrlHome  == [host |-> "zaim.net", path |-> "home"]
UrlMoney == [host |-> "zaim.net", path |-> "money"]
Urls == {UrlAuth, UrlKufu, UrlHome, UrlMoney}

Contains(url, marker) == url.host = marker \/ url.path = marker

\* what the site shows during login: the location after opening URL_LOGIN
\* (u1), whether the primary form's fields appear (form_ok), the location
\* after submitting it (u2), whether the delegated form's email and password
\* fields appear, and the location after submitting the delegated form (u3)
Sites == [u1 : Urls, form_ok : BOOLEAN, u2 : Urls,
          kufu_email : BOOLEAN, kufu_pwd : BOOLEAN, u3 : Urls]

SiteOK == [u1 |-> UrlAuth, form_ok |-> TRUE, u2 |-> UrlMoney,
           kufu_email |-> TRUE, kufu_pwd |-> TRUE, u3 |-> UrlMoney]

\* ------------------------------------------------------- ledger pages
DateTexts == {[mon |-> 1, day |-> 2, paren |-> "holiday"],
              [mon |-> 1, day |-> 3, paren |-> ""],
              [mon |-> 2, day |-> 30, paren |-> ""]}

Price500  == <<"yen", "5", "0", "0">>
Price600  == <<"yen", "6", "0", "0">>
Price1000 == <<"yen", "1", ",", "0", "0", "0">>
PriceNeg  == <<"-", "yen", "5", "0", "0">>
PriceBad  == <<"x">>
PriceTexts == {Price600, Price1000, PriceNeg, PriceBad, <<>>}

DomRow(id, dt, price, to) ==
  [zaim_id |-> id, date_text |-> dt, price_text |-> price, to_text |-> to]

OkPage(rows) == [outcome |-> "ok", rows |-> rows]
FailedPage(kind) == [outcome |-> kind, rows |-> <<>>]
Failures == {"get_error", "wait_timeout", "parse_error"}

Row1 == DomRow(1, [mon |-> 1, day |-> 3, paren |-> ""], Price600, "")

DefaultPages == <<OkPage(<<Row1>>), FailedPage("wait_timeout"), OkPage(<<>>)>>

\* pages of the slice that varies the merge: ids and dates
MergeRows == {DomRow(id, dt, Price600, "") : id \in 1..MaxId, dt \in DateTexts}
MergePages == {OkPage(<<>>), FailedPage("wait_timeout")} \cup {OkPage(<<r>>) : r \in MergeRows}

\* pages of the slice that varies the windows: failures, rows without id,
\* a row repeated within the page
WindowPages ==
  {FailedPage(f) : f \in Failures}
    \cup {OkPage(<<>>), OkPage(<<Row1>>),
          OkPage(<<DomRow(0, Row1.date_text, Price600, ""), Row1,
                   DomRow(1, Row1.date_text, Price1000, "wallet")>>)}

\* pages of the slice that varies the fields of one row
FieldPages ==
  {<<OkPage(<<DomRow(1, dt, p, to)>>), OkPage(<<>>), FailedPage("get_error")>> :
     dt \in DateTexts, p \in PriceTexts, to \in {"", "wallet"}}

\* ------------------------------------------------------- spreadsheet
EmptySheet == [hdr |-> FALSE, rows |-> <<>>]

Today0 == [year |-> 2024, month |-> 1]

\* rows an earlier run can have written
OldRows ==
  {ProcessRow([zaim_id |-> id, date_text |-> dt, price_text |-> Price500,
               to_text |-> "", ScrapedYear |-> Today0.year]) :
     id \in 1..MaxId, dt \in DateTexts}

UniqueIds(rows) ==
  \A j, k \in 1..Len(rows) : j # k => rows[j].zaim_id # rows[k].zaim_id

InitTables ==
  {t \in UNION {[1..n -> OldRows] : n \in 1..MaxStoreRows} :
     UniqueIds(t) /\ t \in SortOutcomes(t)}

Stores == {EmptySheet} \cup {[hdr |-> TRUE, rows |-> t] : t \in InitTables}

Store1 == [hdr |-> TRUE,
           rows |-> <<ProcessRow([zaim_id |-> 1, date_text |-> Row1.date_text,
                                  price_text |-> Price500, to_text |-> "",
                                  ScrapedYear |-> Today0.year])>>]

\* ------------------------------------------------------- environments
ConfigSlice == [config : Configs, site : {SiteOK}, today : {Today0},
                pages : {DefaultPages}, store : {EmptySheet, Store1}]

LoginSlice == [config : {ConfigOK}, site : Sites, today : {Today0},
               pages : {DefaultPages}, store : {EmptySheet}]

WindowSlice == [config : {ConfigOK}, site : {SiteOK},
                today : {[year |-> Today0.year, month |-> m] : m \in 1..12},
                pages : [1..Months -> WindowPages], store : {Store1}]

FieldSlice == [config : {ConfigOK}, site : {SiteOK}, today : {Today0},
               pages : FieldPages, store : {EmptySheet, Store1}]

MergeSlice == [config : {ConfigOK}, site : {SiteOK}, today : {Today0},
               pages : {<<p, q, OkPage(<<>>)>> : p, q \in MergePages},
               store : Stores]

Envs == ConfigSlice \cup LoginSlice \cup WindowSlice \cup FieldSlice \cup MergeSlice

\* ---------------------------------------------------------------- state
VARIABLES
  config, site, today, pages,  \* the environment of the runs
  store,        \* the spreadsheet: what get_all_values() returns
  pc,           \* position of main
  browser,      \* "none", "open" or "closed"
  closes,       \* number of close_selenium() calls of the run
  current_url,  \* driver.current_url
  log,          \* log records of the run
  resubmits,    \* submissions of the credentials to the delegated provider
  i,            \* loop variable of fetch_data_loop
  fetched,      \* month parameters requested so far, in order
  all_dfs,      \* fetch_data_loop: the frames of the windows with data
  clean_df,     \* main: the normalised batch
  existing,     \* upload: the snapshot read from the sheet
  df_final,     \* upload: the table to write
  uploaded,     \* the run finished sheet.update
  runNo,        \* number of the run
  storeAtStart, \* the spreadsheet when the run started
  prev          \* how the previous run ended

vars == <<config, site, today, pages, store, pc, browser, closes, current_url,
          log, resubmits, i, fetched, all_dfs, clean_df, existing, df_final,
          uploaded, runNo, storeAtStart, prev>>

env == <<config, site, today, pages>>
login_vars == <<current_url, resubmits>>
fetch_vars == <<i, fetched, all_dfs>>
upload_vars == <<clean_df, existing, df_final, uploaded>>
run_vars == <<runNo, storeAtStart, prev>>

NoPrev == [uploaded |-> FALSE, store |-> EmptySheet, batch |-> <<>>]

Init ==
  /\ \E e \in Envs :
       /\ config = e.config /\ site = e.site /\ today = e.today
       /\ pages = e.pages /\ store = e.store /\ storeAtStart = e.store
  /\ pc = "start"
  /\ browser = "none" /\ closes = 0
  /\ current_url = [host |-> "", path |-> ""]
  /\ log = {}
  /\ resubmits = 0
  /\ i = 0 /\ fetched = <<>> /\ all_dfs = <<>>
  /\ clean_df = <<>> /\ existing = EmptySheet /\ df_final = <<>>
  /\ uploaded = FALSE
  /\ runNo = 1
  /\ prev = NoPrev

\* main, lines 378-383
Validate ==
  /\ pc = "start"
  /\ IF validate(config)
     THEN pc' = "enter" /\ log' = log
     ELSE pc' = "done" /\ log' = log \cup {"error: config"}
  /\ UNCHANGED <<env, store, browser, closes, login_vars, fetch_vars,
                 upload_vars, run_vars>>

\* BrowserManager.__enter__, lines 53-64: the SeleniumBrowser constructor
\* starts Firefox or raises
EnterLaunch ==
  /\ pc = "enter"
  /\ \E ok \in BOOLEAN :
       IF ok THEN browser' = "open" /\ pc' = "resize"
             ELSE browser' = browser /\ pc' = "done"
  /\ UNCHANGED <<env, store, closes, log, login_vars, fetch_vars, upload_vars,
                 run_vars>>

\* BrowserManager.__enter__, lines 66-71: set_window_size; an exception here
\* leaves __enter__, so __exit__ is not run
EnterResize ==
  /\ pc = "resize"
  /\ \E ok \in BOOLEAN : pc' = IF ok THEN "login" ELSE "done"
  /\ UNCHANGED <<env, store, browser, closes, log, login_vars, fetch_vars,
                 upload_vars, run_vars>>

\* login, lines 88-104
LoginForm ==
  /\ pc = "login"
  /\ IF Contains(site.u1, "auth.zaim.net")
     THEN IF site.form_ok
          THEN current_url' = site.u2 /\ log' = log
          ELSE current_url' = site.u1 /\ log' = log \cup {"warning: login form"}
     ELSE current_url' = site.u1 /\ log' = log
  /\ pc' = "login_kufu"
  /\ UNCHANGED <<env, store, browser, closes, resubmits, fetch_vars,
                 upload_vars, run_vars>>

\* login, lines 106-108, and _login_kufu_account, lines 114-131
LoginKufu ==
  /\ pc = "login_kufu"
  /\ IF Contains(current_url, "id.kufu.jp")
     THEN /\ resubmits' = resubmits + 1
          /\ IF site.kufu_pwd
             THEN /\ current_url' = site.u3
                  /\ pc' = "login_check"
                  /\ log' = log \cup {"info: kufu"}
                              \cup (IF site.kufu_email THEN {} ELSE {"debug: kufu email"})
             ELSE \* the password field never shows: logged, re-raised, and
                  \* caught by main (line 403)
                  /\ current_url' = current_url
                  /\ pc' = "exit"
                  /\ log' = log \cup {"info: kufu", "error: kufu", "error: main"}
                              \cup (IF site.kufu_email THEN {} ELSE {"debug: kufu email"})
     ELSE /\ pc' = "login_check"
          /\ UNCHANGED <<current_url, resubmits, log>>
  /\ UNCHANGED <<env, store, browser, closes, fetch_vars, upload_vars, run_vars>>

LoginConfirmed(url) == Contains(url, "money") \/ Contains(url, "home")

\* login, lines 110-112
LoginCheck ==
  /\ pc = "login_check"
  /\ log' = IF LoginConfirmed(current_url) THEN log \cup {"info: login ok"} ELSE log
  /\ pc' = "fetch"
  /\ UNCHANGED <<env, store, browser, closes, login_vars, fetch_vars,
                 upload_vars, run_vars>>

\* what a window contributes to all_dfs (lines 146-152)
WindowFrames(page, year) ==
  LET df == scrape_one_shot(page)
  IN  IF df # <<>> THEN <<TagYear(df, year)>> ELSE <<>>

\* a window without data ending the loop
NextWindowBreak(k, page) == IF scrape_one_shot(page) = <<>> THEN Months ELSE k + 1

\* where the loop goes after window k (lines 139, 154)
NextWindow(k, page) == k + 1

\* fetch_data_loop, one iteration of lines 139-154
FetchWindow ==
  /\ pc = "fetch" /\ i < Months
  /\ LET target_date == MonthsBefore(today, i)
         page        == pages[i + 1]
     IN  /\ fetched' = Append(fetched, target_date)
         /\ all_dfs' = all_dfs \o WindowFrames(page, target_date.year)
         /\ current_url' = IF page.outcome = "get_error" THEN current_url ELSE UrlMoney
         /\ i' = NextWindow(i, page)
  /\ UNCHANGED <<env, store, pc, browser, closes, log, resubmits, upload_vars,
                 run_vars>>

\* fetch_data_loop, lines 156-159, and main, lines 394-401: DataProcessor.process
\* and the SheetUploader constructor
FetchDone ==
  /\ pc = "fetch" /\ i >= Months
  /\ LET raw_df == Flatten(all_dfs)
     IN  IF raw_df = <<>>
         THEN pc' = "exit" /\ log' = log \cup {"info: no data"} /\ clean_df' = clean_df
         ELSE /\ clean_df' = process(raw_df)
              /\ IF KeyfileReadable(config)
                 THEN pc' = "upload" /\ log' = log
                 ELSE pc' = "exit" /\ log' = log \cup {"error: main"}
  /\ UNCHANGED <<env, store, browser, closes, login_vars, fetch_vars,
                 existing, df_final, uploaded, run_vars>>

\* upload, lines 329-364: read the sheet, merge, sort; an exception of the
\* store client is caught and logged at line 371
UploadRead ==
  /\ pc = "upload"
  /\ \/ /\ existing' = store
        /\ df_final' \in SortOutcomes(MergeFrames(store, clean_df))
        /\ pc' = "clear"
        /\ log' = log
     \/ /\ pc' = "exit"
        /\ log' = log \cup {"error: upload"}
        /\ UNCHANGED <<existing, df_final>>
  /\ UNCHANGED <<env, store, browser, closes, login_vars, fetch_vars,
                 clean_df, uploaded, run_vars>>

\* upload, line 367: sheet.clear()
UploadClear ==
  /\ pc = "clear"
  /\ \/ store' = EmptySheet /\ pc' = "update" /\ log' = log
     \/ store' = store /\ pc' = "exit" /\ log' = log \cup {"error: upload"}
  /\ UNCHANGED <<env, browser, closes, login_vars, fetch_vars, upload_vars,
                 run_vars>>

\* upload, line 368: sheet.update(header + rows)
UploadUpdate ==
  /\ pc = "update"
  /\ \/ /\ store' = [hdr |-> TRUE, rows |-> df_final]
        /\ uploaded' = TRUE
        /\ log' = log
     \/ /\ log' = log \cup {"error: upload"}
        /\ UNCHANGED <<store, uploaded>>
  /\ pc' = "exit"
  /\ UNCHANGED <<env, browser, closes, login_vars, fetch_vars, clean_df,
                 existing, df_final, run_vars>>

\* BrowserManager.__exit__, lines 73-76
Exit ==
  /\ pc = "exit"
  /\ browser' = "closed"
  /\ closes' = closes + 1
  /\ pc' = "done"
  /\ UNCHANGED <<env, store, log, login_vars, fetch_vars, upload_vars, run_vars>>

\* main is executed again, the ledger and the configuration unchanged
Rerun ==
  /\ pc = "done" /\ runNo < MaxRuns
  /\ runNo' = runNo + 1
  /\ prev' = [uploaded |-> uploaded, store |-> store, batch |-> clean_df]
  /\ storeAtStart' = store
  /\ pc' = "start"
  /\ browser' = "none" /\ closes' = 0
  /\ current_url' = [host |-> "", path |-> ""]
  /\ log' = {}
  /\ resubmits' = 0
  /\ i' = 0 /\ fetched' = <<>> /\ all_dfs' = <<>>
  /\ clean_df' = <<>> /\ existing' = EmptySheet /\ df_final' = <<>>
  /\ uploaded' = FALSE
  /\ UNCHANGED <<env, store>>

Next ==
  \/ Validate
  \/ EnterLaunch
  \/ EnterResize
  \/ LoginForm
  \/ LoginKufu
  \/ LoginCheck
  \/ FetchWindow
  \/ FetchDone
  \/ UploadRead
  \/ UploadClear
  \/ UploadUpdate
  \/ Exit
  \/ Rerun

Spec == Init /\ [][Next]_vars

\* ---------------------------------------------------------------- claims
Ids(rows) == {rows[k].zaim_id : k \in 1..Len(rows)}

LastOf(df, id) ==
  df[CHOOSE k \in 1..Len(df) :
       df[k].zaim_id = id /\ \A j \in (k + 1)..Len(df) : df[j].zaim_id # id]

Written == uploaded /\ pc \in {"exit", "done"}

\* C1: a second run with the same batch, reading what the first run wrote,
\* leaves the sheet with the same sequence of rows as the first run did.
MergeIdempotent ==
  (Written /\ prev.uploaded /\ prev.batch = clean_df /\ storeAtStart = prev.store)
    => store = prev.store

\* the scenario of the specification: the sheet holds id 100 (2024-01-01,
\* 500); the batch is id 100 (1月2日, ¥600, to "wallet") and id 101 (1月3日,
\* ¥100), both scraped in a window of 2024
ScenarioSheet ==
  [hdr |-> TRUE,
   rows |-> <<[zaim_id |-> 100, date_obj |-> <<2024, 1, 1>>, amount |-> 500,
               nyukin |-> 0, shukkin |-> 500, to_text |-> ""]>>]

ScenarioBatch ==
  process(<<[zaim_id |-> 100, date_text |-> [mon |-> 1, day |-> 2, paren |-> ""],
             price_text |-> Price600, to_text |-> "wallet", ScrapedYear |-> 2024],
            [zaim_id |-> 101, date_text |-> [mon |-> 1, day |-> 3, paren |-> ""],
             price_text |-> <<"yen", "1", "0", "0">>, to_text |-> "",
             ScrapedYear |-> 2024]>>)

ScenarioExpected ==
  <<[zaim_id |-> 101, date_obj |-> <<2024, 1, 3>>, amount |-> 100,
     nyukin |-> 0, shukkin |-> 100, to_text |-> ""],
    [zaim_id |-> 100, date_obj |-> <<2024, 1, 2>>, amount |-> 600,
     nyukin |-> 600, shukkin |-> 0, to_text |-> "wallet"]>>

\* C2: an id that is both in the sheet read by upload and in the new batch
\* has exactly one row in the written sheet, and that row carries the values
\* of the batch (of the id's last row in the batch), not those of the sheet;
\* the scenario of the specification gives exactly its expected table.
LatestWins ==
  /\ Written => SortOutcomes(MergeFrames(ScenarioSheet, ScenarioBatch)) = {ScenarioExpected}
  /\ Written =>
    \A id \in (Ids(storeAtStart.rows) \cap Ids(clean_df)) \ {0} :
      /\ Cardinality({k \in 1..Len(store.rows) : store.rows[k].zaim_id = id}) = 1
      /\ \A k \in 1..Len(store.rows) :
           store.rows[k].zaim_id = id => store.rows[k] = LastOf(clean_df, id)

LatestWinsWitness ==
  /\ Written
  /\ \E id \in Ids(storeAtStart.rows) \cap Ids(clean_df) :
       /\ \E k \in 1..Len(storeAtStart.rows) :
            /\ storeAtStart.rows[k].zaim_id = id
            /\ storeAtStart.rows[k].amount # LastOf(clean_df, id).amount
            /\ storeAtStart.rows[k].date_obj # LastOf(clean_df, id).date_obj
       /\ \E k \in 1..Len(store.rows) : store.rows[k].zaim_id # id

\* C3: the written sheet has no two rows of the same id and no row of empty id.
WrittenIdsUnique ==
  Written => UniqueIds(store.rows) /\ 0 \notin Ids(store.rows)

\* the stable descending order: rows of the greatest date first, in their
\* pre-sort order; NaT, the least key, last
RECURSIVE StableDescending(_)
StableDescending(df) ==
  IF df = <<>> THEN <<>>
  ELSE LET top == CHOOSE d \in {Key(df[k]) : k \in 1..Len(df)} :
                    \A k \in 1..Len(df) : Key(df[k]) <= d
       IN  SelectSeq(df, LAMBDA r : Key(r) = top)
             \o StableDescending(SelectSeq(df, LAMBDA r : Key(r) # top))

\* C4: the written rows are in date-descending order, rows of null date
\* after all dated rows, and rows of equal date (or both null) in the order
\* of the pre-sort sequence (existing rows, then new rows, deduplicated).
WrittenOrderStable ==
  Written => store.rows = StableDescending(MergeFrames(existing, clean_df))

\* C5: when a run has ended, however it ended, the sheet holds the complete
\* table it held when the run started or the complete merged table.
StoreAtomic ==
  pc = "done" =>
    \/ store = storeAtStart
    \/ uploaded /\ store = [hdr |-> TRUE, rows |-> df_final]

ExtractedIds == UNION {Ids(scrape_one_shot(pages[w])) : w \in 1..Months}

\* C6: every non-empty id of the sheet as it was before the run, and every
\* id extracted from a window of the run, is the id of a row of the sheet
\* the run wrote.
NoRecordLost ==
  Written =>
    \A id \in (Ids(storeAtStart.rows) \cup ExtractedIds) \ {0} : id \in Ids(store.rows)

NoRecordLostWitness ==
  /\ Written
  /\ \E id \in Ids(storeAtStart.rows) : id # 0 /\ id \notin ExtractedIds
  /\ \E id \in ExtractedIds : id \notin Ids(storeAtStart.rows)
  /\ \E k \in 1..Len(clean_df) : clean_df[k].date_obj = <<>>

SideEffect ==
  \/ browser # "none"
  \/ pc \in {"resize", "login", "login_kufu", "login_check", "fetch",
             "upload", "clear", "update", "exit"}
  \/ store # storeAtStart
  \/ uploaded

\* C7 as stated: no browser or store action when any of the four
\* configuration values (email, password, store identifier, credential file
\* path) is absent.
NoSideEffectUnlessAllFour ==
  SideEffect =>
    /\ config.ZAIM_EMAIL # "" /\ config.ZAIM_PASS # ""
    /\ config.SPREADSHEET_KEY # "" /\ config.JSON_KEYFILE # ""

\* C7 as amended: no browser or store action when the login email, the
\* login password or the store identifier is absent; a run with such a
\* configuration ends with the error logged and nothing touched.
NoSideEffectUnlessValidated ==
  /\ SideEffect =>
       config.ZAIM_EMAIL # "" /\ config.ZAIM_PASS # "" /\ config.SPREADSHEET_KEY # ""
  /\ (pc # "start" /\ (config.ZAIM_EMAIL = "" \/ config.ZAIM_PASS = ""
                        \/ config.SPREADSHEET_KEY = ""))
       => pc = "done" /\ "error: config" \in log

AbortedWitness ==
  /\ pc = "done" /\ "error: config" \in log
  /\ config.SPREADSHEET_KEY = "" /\ config.ZAIM_EMAIL # "" /\ config.ZAIM_PASS # ""
  /\ browser = "none" /\ store = storeAtStart /\ store # EmptySheet

\* C8: every normalised record has an amount >= 0, and so inflow and outflow
\* columns >= 0.
AmountNonNegative ==
  \A k \in 1..Len(clean_df) :
    clean_df[k].amount >= 0 /\ clean_df[k].nyukin >= 0 /\ clean_df[k].shukkin >= 0

\* the calendar month k months before t, for k < 12
MonthBack(t, k) ==
  IF t.month > k THEN [year |-> t.year, month |-> t.month - k]
  ELSE [year |-> t.year - 1, month |-> t.month + 12 - k]

RECURSIVE SuccessfulWindows(_)
SuccessfulWindows(w) ==
  IF w = 0 THEN <<>>
  ELSE SuccessfulWindows(w - 1)
         \o (IF pages[w].outcome = "ok"
             THEN TagYear(scrape_one_shot(pages[w]), MonthBack(today, w - 1).year)
             ELSE <<>>)

\* C9: when the loop of fetch_data_loop has ended it has requested exactly
\* Months windows, window k being the calendar month k months before today,
\* and the batch is the records of all successful windows, in window order,
\* each tagged with the year of its window; a failed window adds nothing and
\* stops nothing.
WindowIsolation ==
  i >= Months =>
    /\ Len(fetched) = Months
    /\ \A k \in 1..Months : fetched[k] = MonthBack(today, k - 1)
    /\ Flatten(all_dfs) = SuccessfulWindows(Months)

WindowIsolationWitness ==
  /\ i >= Months
  /\ pages[1].outcome # "ok"
  /\ pages[2].outcome = "ok" /\ pages[2].rows # <<>>
  /\ pages[3].outcome = "ok" /\ pages[3].rows # <<>>
  /\ fetched[3].year # today.year
  /\ Len(Flatten(all_dfs)) = 2

LoginWarned == \E m \in log : m \in {"warning: login form", "warning: login unconfirmed"}

\* C10: login submits the credentials to the delegated provider at most
\* once, never ends the run, and when it returns without a success
\* indicator in the location a warning has been logged and the window
\* fetching starts.
LoginProceedsWithWarning ==
  /\ resubmits <= 1
  /\ "error: kufu" \notin log
  /\ (pc = "fetch" /\ i = 0 /\ ~LoginConfirmed(current_url)) => LoginWarned

\* C11: when a run has ended and the browser was launched in it, the
\* browser has been closed, and closed exactly once; no run ends with a
\* launched browser still open.
BrowserReleased ==
  /\ closes <= 1
  /\ (pc = "done" /\ browser # "none") => (browser = "closed" /\ closes = 1)

=============================================================================
